---------------------------- MODULE Spec2Model ----------------------------
(***************************************************************************)
(* A model of src/bot.py: the per-user record store (USERS), the daily     *)
(* rollover of get_user, the goal calculators, the temperature cache of    *)
(* get_temperature, and the two ConversationHandler flows (profile setup   *)
(* and food logging) with the stateless command handlers around them.      *)
(*                                                                         *)
(* Python values are tagged records, so that None, int, float, NaN and     *)
(* str stay distinct as they are in the program.  A float is held in       *)
(* tenths (fixed point, one decimal digit); NaN is a float of its own.     *)
(* A text is a sequence of one-character strings, and the parsers work on  *)
(* the characters.                                                         *)
(***************************************************************************)
EXTENDS Integers, Sequences, FiniteSets, TLC

(***************************************************************************)
(* Bounds of the model.                                                    *)
(***************************************************************************)
\* the last day the calendar reaches
MaxDay == 1
\* the longest history of a day, in the specifications Spec and SpecLedger
MaxFlowHist == 1
MaxHist == 2
\* the last minute the clock reaches
MaxNow == 36
MaxQueue == 2

UserIds == {1}

(***************************************************************************)
(* Python values.                                                          *)
(***************************************************************************)
PyNone == [t |-> "None"]
PyInt(n) == [t |-> "int", n |-> n]
PyFloat(x) == [t |-> "float", x |-> x]
NaN == [t |-> "nan"]
PyStr(s) == [t |-> "str", s |-> s]
PyTime(m) == [t |-> "datetime", m |-> m]
ValueError == [t |-> "ValueError"]

\* bool(v): the truth value Python gives v in `not v`, all([...]) and `a or b`
Truthy(v) ==
    CASE v.t = "None" -> FALSE
      [] v.t = "int" -> v.n # 0
      [] v.t = "float" -> v.x # 0
      [] v.t = "nan" -> TRUE
      [] v.t = "str" -> Len(v.s) > 0
      [] OTHER -> TRUE

\* v <= 0 for a number; every comparison with NaN is False
LeqZero(v) ==
    CASE v.t = "int" -> v.n <= 0
      [] v.t = "float" -> v.x <= 0
      [] OTHER -> FALSE

\* v < 0 for a number
LtZero(v) ==
    CASE v.t = "int" -> v.n < 0
      [] v.t = "float" -> v.x < 0
      [] OTHER -> FALSE

\* the value of a number in tenths
Tenths(v) == IF v.t = "int" THEN v.n * 10 ELSE v.x

\* int(x) of a float held in tenths: truncation toward zero
Trunc(x) == IF x >= 0 THEN x \div 10 ELSE -((-x) \div 10)

\* a + b: int + int is an int, anything with a float is a float, NaN absorbs
PyAdd(a, b) ==
    IF a.t = "nan" \/ b.t = "nan" THEN NaN
    ELSE IF a.t = "int" /\ b.t = "int" THEN PyInt(a.n + b.n)
    ELSE PyFloat(Tenths(a) + Tenths(b))

(***************************************************************************)
(* Texts and the parsers (parse_float, parse_int, normalize_sex).          *)
(***************************************************************************)
Digits == <<"0", "1", "2", "3", "4", "5", "6", "7", "8", "9">>

IsDigit(c) == \E i \in 1..10 : Digits[i] = c

DigitVal(c) == (CHOOSE i \in 1..10 : Digits[i] = c) - 1

RECURSIVE Strip(_)
\* str.strip(): leading and trailing blanks removed
Strip(s) ==
    IF s = <<>> THEN s
    ELSE IF Head(s) = " " THEN Strip(Tail(s))
    ELSE IF s[Len(s)] = " " THEN Strip(SubSeq(s, 1, Len(s) - 1))
    ELSE s

\* str.lower() on the letters the texts of the model use
LowerChar(c) ==
    CASE c = "M" -> "m" [] c = "F" -> "f" [] c = "Y" -> "y" [] c = "E" -> "e"
      [] c = "S" -> "s" [] c = "N" -> "n" [] c = "A" -> "a" [] c = "B" -> "b"
      [] c = "K" -> "k"
      [] OTHER -> c

Lower(s) == [i \in 1..Len(s) |-> LowerChar(s[i])]

\* value.replace(",", ".")
ReplaceComma(s) == [i \in 1..Len(s) |-> IF s[i] = "," THEN "." ELSE s[i]]

RECURSIVE Join(_)
\* " ".join(args)
Join(args) ==
    IF args = <<>> THEN <<>>
    ELSE IF Len(args) = 1 THEN args[1]
    ELSE args[1] \o <<" ">> \o Join(Tail(args))

RECURSIVE DigitsValue(_)
\* the number a run of digits spells
DigitsValue(s) ==
    IF s = <<>> THEN 0
    ELSE DigitsValue(SubSeq(s, 1, Len(s) - 1)) * 10 + DigitVal(s[Len(s)])

AllDigits(s) == \A i \in 1..Len(s) : IsDigit(s[i])

\* an unsigned decimal literal: digits, optionally "." and more digits, with at
\* least one digit in all; its value in tenths (digits past the first decimal
\* place are dropped), or ValueError
Unsigned(s) ==
    LET dots == {i \in 1..Len(s) : s[i] = "."}
    IN  IF dots = {} THEN
            IF s # <<>> /\ AllDigits(s) THEN PyFloat(DigitsValue(s) * 10) ELSE ValueError
        ELSE
            LET d == CHOOSE i \in dots : \A j \in dots : i <= j
                ip == SubSeq(s, 1, d - 1)
                fp == SubSeq(s, d + 1, Len(s))
            IN  IF AllDigits(ip) /\ AllDigits(fp) /\ Len(ip) + Len(fp) > 0
                THEN PyFloat(DigitsValue(ip) * 10 + (IF fp = <<>> THEN 0 ELSE DigitVal(fp[1])))
                ELSE ValueError

\* float(s): blanks stripped, an optional sign, then "nan" in any case or a
\* decimal literal; anything else raises ValueError
FloatOf(s) ==
    LET t == Strip(s)
        neg == t # <<>> /\ Head(t) = "-"
        body == IF t # <<>> /\ Head(t) \in {"-", "+"} THEN Tail(t) ELSE t
        u == Unsigned(body)
    IN  IF Lower(body) = <<"n", "a", "n">> THEN NaN
        ELSE IF u = ValueError THEN ValueError
        ELSE IF neg THEN PyFloat(-u.x) ELSE u

parse_float(value) ==
    LET r == FloatOf(ReplaceComma(value))
    IN  IF r = ValueError THEN PyNone ELSE r

parse_int(value) ==
    LET r == FloatOf(ReplaceComma(value))
    IN  IF r = ValueError \/ r = NaN THEN PyNone ELSE PyInt(Trunc(r.x))

normalize_sex(text) ==
    LET t == Lower(Strip(text))
    IN  IF t \in {<<"m">>, <<"m", "a", "l", "e">>} THEN PyStr(<<"m", "a", "l", "e">>)
        ELSE IF t \in {<<"f">>, <<"f", "e", "m", "a", "l", "e">>}
             THEN PyStr(<<"f", "e", "m", "a", "l", "e">>)
        ELSE PyNone

(***************************************************************************)
(* Goal calculators and the profile gate.                                  *)
(***************************************************************************)
\* a heat bonus whose upper bucket starts at 30 degrees instead of above it
HeatBonusFromThirty(temp_c) ==
    IF temp_c = PyNone THEN 0
    ELSE IF temp_c.x >= 300 THEN 1000
    ELSE IF temp_c.x > 250 THEN 500
    ELSE 0

\* the heat bonus of calc_water_goal
HeatBonus(temp_c) ==
    IF temp_c = PyNone THEN 0
    ELSE IF temp_c.x > 300 THEN 1000
    ELSE IF temp_c.x > 250 THEN 500
    ELSE 0

\* (activity // 30) * per if activity else 0
ActivityBonus(activity, per) ==
    IF Truthy(activity) THEN (activity.n \div 30) * per ELSE 0

calc_water_goal(weight, activity, temp_c) ==
    IF ~Truthy(weight) THEN PyInt(0)
    ELSE IF weight = NaN THEN ValueError
    ELSE PyInt(Trunc(weight.x * 30 + ActivityBonus(activity, 500) * 10 + HeatBonus(temp_c) * 10))

\* a gate that does not look at the activity minutes
ensure_profile_ignores_activity(user) ==
    /\ Truthy(user.weight)
    /\ Truthy(user.height)
    /\ Truthy(user.age)

ensure_profile(user) ==
    /\ Truthy(user.weight)
    /\ Truthy(user.height)
    /\ Truthy(user.age)
    /\ Truthy(user.activity)

calc_calorie_goal(weight, height, age, sex, activity) ==
    IF ~(Truthy(weight) /\ Truthy(height) /\ Truthy(age)) THEN PyInt(0)
    ELSE IF weight = NaN THEN ValueError
    ELSE LET s == IF sex = PyStr(<<"m", "a", "l", "e">>) THEN 5
                  ELSE IF sex = PyStr(<<"f", "e", "m", "a", "l", "e">>) THEN -161
                  ELSE 0
             \* bmr + activity_bonus, in hundredths
             h == weight.x * 100 + 625 * height.n - 500 * age.n + 100 * s
                    + 100 * ActivityBonus(activity, 100)
         IN  PyInt(IF h >= 0 THEN h \div 100 ELSE -((-h) \div 100))

\* max(goal - logged, 0) of two ints
Remaining(goal, logged) ==
    IF goal.n - logged.n > 0 THEN PyInt(goal.n - logged.n) ELSE PyInt(0)

(***************************************************************************)
(* State.                                                                  *)
(***************************************************************************)
VARIABLES
    USERS,          \* the USERS dict: user id -> record
    profile_conv,   \* profile_conv's conversation state of each user
    food_conv,      \* food_conv's conversation state of each user
    user_data,      \* context.user_data of each user (food_name, food_kcal)
    OWM_API_KEY,    \* whether the weather key is configured
    today,          \* date.today()
    now,            \* datetime.utcnow(), in minutes
    reply,          \* what the last handler sent with reply_text / reply_photo
    last_get,       \* the last get_temperature call that went past its first return
    update_queue,   \* Application.update_queue: updates delivered and not yet taken
    running         \* the handler coroutines started and not yet ended

vars == <<USERS, profile_conv, food_conv, user_data, OWM_API_KEY, today, now, reply, last_get,
          update_queue, running>>

\* an application with no update waiting and no handler in progress
Idle == update_queue = <<>> /\ running = <<>>

\* a step in which each update is handled whole, from its delivery to the end
\* of its handler
Handled == UNCHANGED <<update_queue, running>>

END == "END"

NoReply == [kind |-> "none"]

NoGet == [t |-> "None"]

NoData == [food_name |-> PyNone, food_kcal |-> PyNone]

\* the record USERS.setdefault creates
NewUser(d) ==
    [weight |-> PyNone, height |-> PyNone, age |-> PyNone, sex |-> PyNone,
     activity |-> PyNone, city |-> PyNone, manual_calorie_goal |-> PyNone,
     logged_water |-> PyInt(0), logged_calories |-> PyInt(0),
     burned_calories |-> PyInt(0), history |-> <<>>,
     last_temp |-> PyNone, last_temp_ts |-> PyNone, last_date |-> d]

\* the rollover of get_user: the ledger of a record whose last_date is not d
Rollover(user, d) ==
    [user EXCEPT !.logged_water = PyInt(0), !.logged_calories = PyInt(0),
                 !.burned_calories = PyInt(0), !.history = <<>>, !.last_date = d]

\* get_user with a rollover that keeps the history of the day before
get_user_keeps_history(users, u, d) ==
    LET U0 == IF u \in DOMAIN users THEN users ELSE (u :> NewUser(d)) @@ users
    IN  IF U0[u].last_date # d
        THEN [U0 EXCEPT ![u] = [Rollover(U0[u], d) EXCEPT !.history = U0[u].history]]
        ELSE U0

\* USERS after get_user(u) on date d; the record returned is get_user(...)[u]
get_user(users, u, d) ==
    LET U0 == IF u \in DOMAIN users THEN users ELSE (u :> NewUser(d)) @@ users
    IN  IF U0[u].last_date # d THEN [U0 EXCEPT ![u] = Rollover(U0[u], d)] ELSE U0

\* user["history"] after log_history(user, kind, amount) at time t
log_history(user, kind, amount, t) ==
    Append(user.history, [ts |-> t, kind |-> kind, amount |-> amount])

Init ==
    /\ USERS = <<>>
    /\ profile_conv = [u \in UserIds |-> END]
    /\ food_conv = [u \in UserIds |-> END]
    /\ user_data = [u \in UserIds |-> NoData]
    /\ OWM_API_KEY = FALSE
    /\ today = 0
    /\ now = 0
    /\ reply = NoReply
    /\ last_get = NoGet
    /\ Idle

(***************************************************************************)
(* The texts the model sends.                                              *)
(***************************************************************************)
\* texts no numeric state accepts: not a number, zero, negative
InvalidTexts == {<<"a", "b", "c">>, <<"0">>, <<"-", "5">>}

NanText == <<"n", "a", "n">>

WeightTexts == InvalidTexts \cup {NanText, <<"7", "0", ",", "5">>}

HeightTexts == InvalidTexts \cup {NanText, <<"0", ",", "5">>, <<"1", "7", "5", ".", "9">>}

AgeTexts == InvalidTexts \cup {NanText, <<"3", "0">>}

SexTexts == {<<"-">>, <<" ", "M">>, <<"a", "b", "c">>}

ActivityTexts == {<<"a", "b", "c">>, <<"-", "5">>, NanText, <<"0">>, <<"4", "5">>}

CityTexts == {<<" ", "O", "s", "l", "o">>}

ChoiceTexts == {<<"Y", "e", "s">>, <<"y">>, <<"n", "o">>}

CaloriesTexts == InvalidTexts \cup {NanText, <<"2", "0", "0", "0">>}

(***************************************************************************)
(* The profile flow (profile_conv).  An update reaches a state's handler   *)
(* when the conversation of the user is in that state; the entry point is  *)
(* tried only when the user has no conversation in this handler.           *)
(***************************************************************************)
set_profile(u) ==
    /\ profile_conv[u] = END
    /\ profile_conv' = [profile_conv EXCEPT ![u] = "WEIGHT"]
    /\ reply' = [kind |-> "ask_weight"]
    /\ UNCHANGED <<USERS, food_conv, user_data, OWM_API_KEY, today, now, last_get>>

set_weight(u, text) ==
    /\ profile_conv[u] = "WEIGHT"
    /\ LET weight == parse_float(text)
       IN  IF ~Truthy(weight) \/ LeqZero(weight)
           THEN /\ reply' = [kind |-> "bad_weight"]
                /\ UNCHANGED <<USERS, profile_conv>>
           ELSE /\ USERS' = [get_user(USERS, u, today) EXCEPT ![u].weight = weight]
                /\ profile_conv' = [profile_conv EXCEPT ![u] = "HEIGHT"]
                /\ reply' = [kind |-> "ask_height"]
    /\ UNCHANGED <<food_conv, user_data, OWM_API_KEY, today, now, last_get>>

set_height(u, text) ==
    /\ profile_conv[u] = "HEIGHT"
    /\ LET height == parse_int(text)
       IN  IF ~Truthy(height) \/ LeqZero(height)
           THEN /\ reply' = [kind |-> "bad_height"]
                /\ UNCHANGED <<USERS, profile_conv>>
           ELSE /\ USERS' = [get_user(USERS, u, today) EXCEPT ![u].height = height]
                /\ profile_conv' = [profile_conv EXCEPT ![u] = "AGE"]
                /\ reply' = [kind |-> "ask_age"]
    /\ UNCHANGED <<food_conv, user_data, OWM_API_KEY, today, now, last_get>>

set_age(u, text) ==
    /\ profile_conv[u] = "AGE"
    /\ LET age == parse_int(text)
       IN  IF ~Truthy(age) \/ LeqZero(age)
           THEN /\ reply' = [kind |-> "bad_age"]
                /\ UNCHANGED <<USERS, profile_conv>>
           ELSE /\ USERS' = [get_user(USERS, u, today) EXCEPT ![u].age = age]
                /\ profile_conv' = [profile_conv EXCEPT ![u] = "SEX"]
                /\ reply' = [kind |-> "ask_sex"]
    /\ UNCHANGED <<food_conv, user_data, OWM_API_KEY, today, now, last_get>>

set_sex(u, text) ==
    /\ profile_conv[u] = "SEX"
    /\ LET t == Strip(text)
           sex == IF t # <<"-">> THEN normalize_sex(t) ELSE PyNone
       IN  USERS' = [get_user(USERS, u, today) EXCEPT ![u].sex = sex]
    /\ profile_conv' = [profile_conv EXCEPT ![u] = "ACTIVITY"]
    /\ reply' = [kind |-> "ask_activity"]
    /\ UNCHANGED <<food_conv, user_data, OWM_API_KEY, today, now, last_get>>

set_activity(u, text) ==
    /\ profile_conv[u] = "ACTIVITY"
    /\ LET activity == parse_int(text)
       IN  IF activity = PyNone \/ LtZero(activity)
           THEN /\ reply' = [kind |-> "bad_activity"]
                /\ UNCHANGED <<USERS, profile_conv>>
           ELSE /\ USERS' = [get_user(USERS, u, today) EXCEPT ![u].activity = activity]
                /\ profile_conv' = [profile_conv EXCEPT ![u] = "CITY"]
                /\ reply' = [kind |-> "ask_city"]
    /\ UNCHANGED <<food_conv, user_data, OWM_API_KEY, today, now, last_get>>

set_city(u, text) ==
    /\ profile_conv[u] = "CITY"
    /\ USERS' = [get_user(USERS, u, today) EXCEPT ![u].city = PyStr(Strip(text))]
    /\ profile_conv' = [profile_conv EXCEPT ![u] = "MANUAL_CALORIES"]
    /\ reply' = [kind |-> "ask_manual_choice"]
    /\ UNCHANGED <<food_conv, user_data, OWM_API_KEY, today, now, last_get>>

\* set_manual_choice that leaves the override as it is when the answer is no
set_manual_choice_keeps_override(u, text) ==
    /\ profile_conv[u] = "MANUAL_CALORIES"
    /\ IF Lower(Strip(text)) \in {<<"y", "e", "s">>, <<"y">>}
       THEN /\ profile_conv' = [profile_conv EXCEPT ![u] = "CALORIES_VALUE"]
            /\ reply' = [kind |-> "ask_calories"]
            /\ UNCHANGED USERS
       ELSE /\ USERS' = get_user(USERS, u, today)
            /\ profile_conv' = [profile_conv EXCEPT ![u] = END]
            /\ reply' = [kind |-> "profile_saved"]
    /\ UNCHANGED <<food_conv, user_data, OWM_API_KEY, today, now, last_get>>

set_manual_choice(u, text) ==
    /\ profile_conv[u] = "MANUAL_CALORIES"
    /\ IF Lower(Strip(text)) \in {<<"y", "e", "s">>, <<"y">>}
       THEN /\ profile_conv' = [profile_conv EXCEPT ![u] = "CALORIES_VALUE"]
            /\ reply' = [kind |-> "ask_calories"]
            /\ UNCHANGED USERS
       ELSE /\ USERS' = [get_user(USERS, u, today) EXCEPT ![u].manual_calorie_goal = PyNone]
            /\ profile_conv' = [profile_conv EXCEPT ![u] = END]
            /\ reply' = [kind |-> "profile_saved"]
    /\ UNCHANGED <<food_conv, user_data, OWM_API_KEY, today, now, last_get>>

set_manual_calories(u, text) ==
    /\ profile_conv[u] = "CALORIES_VALUE"
    /\ LET value == parse_int(text)
       IN  IF ~Truthy(value) \/ LeqZero(value)
           THEN /\ reply' = [kind |-> "bad_calories"]
                /\ UNCHANGED <<USERS, profile_conv>>
           ELSE /\ USERS' = [get_user(USERS, u, today) EXCEPT ![u].manual_calorie_goal = value]
                /\ profile_conv' = [profile_conv EXCEPT ![u] = END]
                /\ reply' = [kind |-> "profile_saved"]
    /\ UNCHANGED <<food_conv, user_data, OWM_API_KEY, today, now, last_get>>

cancel_profile(u) ==
    /\ profile_conv[u] # END
    /\ profile_conv' = [profile_conv EXCEPT ![u] = END]
    /\ reply' = [kind |-> "profile_cancelled"]
    /\ UNCHANGED <<USERS, food_conv, user_data, OWM_API_KEY, today, now, last_get>>

(***************************************************************************)
(* The temperature cache.                                                  *)
(***************************************************************************)
\* what the weather request can come to: "fail" (a status other than 200, no
\* main.temp in the payload, or an exception of requests.get) or a temperature
WeatherResponses ==
    {[ok |-> FALSE, temp |-> PyNone]}
        \cup {[ok |-> TRUE, temp |-> PyFloat(x)] : x \in {200, 320}}

\* the length of the cache window, timedelta(minutes=30)
CacheMinutes == 30

\* a window of 5 minutes
CacheFreshFiveMinutes(user, t) ==
    /\ user.last_temp_ts # PyNone
    /\ t - user.last_temp_ts.m < 5

\* a window that takes in the 30th minute
CacheFreshInclusive(user, t) ==
    /\ user.last_temp_ts # PyNone
    /\ t - user.last_temp_ts.m <= CacheMinutes

\* whether get_temperature uses the stored temperature at time t
CacheFresh(user, t) ==
    /\ user.last_temp_ts # PyNone
    /\ t - user.last_temp_ts.m < CacheMinutes

\* get_temperature that answers a failed request with the stored temperature
get_temperature_stale_on_failure(city, user, key, t, resp) ==
    IF ~Truthy(city) \/ ~key
    THEN [ret |-> PyNone, user |-> user, past |-> FALSE, called |-> FALSE, failed |-> FALSE]
    ELSE IF CacheFresh(user, t)
    THEN [ret |-> user.last_temp, user |-> user, past |-> TRUE, called |-> FALSE, failed |-> FALSE]
    ELSE IF resp.ok
    THEN [ret |-> resp.temp,
          user |-> [user EXCEPT !.last_temp = resp.temp, !.last_temp_ts = PyTime(t)],
          past |-> TRUE, called |-> TRUE, failed |-> FALSE]
    ELSE [ret |-> user.last_temp, user |-> user, past |-> TRUE, called |-> TRUE, failed |-> TRUE]

\* get_temperature(city, user) at time t when the request, if one is made, comes
\* to resp: the value returned, the user record afterwards, whether the call
\* went past its first return, whether it made the request, and whether the
\* request failed
get_temperature(city, user, key, t, resp) ==
    IF ~Truthy(city) \/ ~key
    THEN [ret |-> PyNone, user |-> user, past |-> FALSE, called |-> FALSE, failed |-> FALSE]
    ELSE IF CacheFresh(user, t)
    THEN [ret |-> user.last_temp, user |-> user, past |-> TRUE, called |-> FALSE, failed |-> FALSE]
    ELSE IF resp.ok
    THEN [ret |-> resp.temp,
          user |-> [user EXCEPT !.last_temp = resp.temp, !.last_temp_ts = PyTime(t)],
          past |-> TRUE, called |-> TRUE, failed |-> FALSE]
    ELSE [ret |-> PyNone, user |-> user, past |-> TRUE, called |-> TRUE, failed |-> TRUE]

\* last_get after a get_temperature call with outcome g at time t
RecordGet(g, t) ==
    IF g.past THEN [t |-> "get", at |-> t, called |-> g.called, failed |-> g.failed,
                      ret |-> g.ret]
    ELSE last_get

\* the computed goal whatever the override
calorie_goal_always_computed(user) ==
    calc_calorie_goal(user.weight, user.height, user.age, user.sex, user.activity)

\* user.get("manual_calorie_goal") or calc_calorie_goal(...)
calorie_goal_of(user) ==
    IF Truthy(user.manual_calorie_goal) THEN user.manual_calorie_goal
    ELSE calc_calorie_goal(user.weight, user.height, user.age, user.sex, user.activity)

(***************************************************************************)
(* The stateless commands.  A handler that raises sends no reply: the      *)
(* exception goes to the application's error log, and what the handler     *)
(* wrote before it stays written.                                          *)
(***************************************************************************)
Raised == [kind |-> "exception"]

NeedProfile == [kind |-> "need_profile"]

start(u) ==
    /\ reply' = [kind |-> "start"]
    /\ UNCHANGED <<USERS, profile_conv, food_conv, user_data, OWM_API_KEY, today, now, last_get>>

help_command(u) ==
    /\ reply' = [kind |-> "help"]
    /\ UNCHANGED <<USERS, profile_conv, food_conv, user_data, OWM_API_KEY, today, now, last_get>>

show_profile(u, resp) ==
    LET U1 == get_user(USERS, u, today)
        user == U1[u]
        g == get_temperature(user.city, user, OWM_API_KEY, now, resp)
        water_goal == calc_water_goal(user.weight, user.activity, g.ret)
        calorie_goal == calorie_goal_of(user)
    IN  /\ IF ~ensure_profile(user)
           THEN /\ USERS' = U1
                /\ reply' = NeedProfile
                /\ UNCHANGED last_get
           ELSE /\ USERS' = [U1 EXCEPT ![u] = g.user]
                /\ last_get' = RecordGet(g, now)
                /\ reply' = IF water_goal = ValueError \/ calorie_goal = ValueError
                            THEN Raised
                            ELSE [kind |-> "profile", temp |-> g.ret,
                                  water_goal |-> water_goal, calorie_goal |-> calorie_goal]
        /\ UNCHANGED <<profile_conv, food_conv, user_data, OWM_API_KEY, today, now>>

\* context.args of /log_water: none, or one token
WaterArgs == {<<>>, <<<<"a", "b", "c">>>>, <<<<"3", "0", "0", "0">>>>}

log_water(u, args, resp) ==
    \* amount = parse_int(context.args[0]), parsed once
    \E amount \in {IF args = <<>> THEN PyNone ELSE parse_int(args[1])} :
    LET U1 == get_user(USERS, u, today)
        user == U1[u]
        logged == [user EXCEPT !.logged_water = PyAdd(user.logged_water, amount),
                               !.history = log_history(user, "water", amount, now)]
        g == get_temperature(logged.city, logged, OWM_API_KEY, now, resp)
        water_goal == calc_water_goal(logged.weight, logged.activity, g.ret)
    IN  /\ IF ~ensure_profile(user)
           THEN /\ USERS' = U1
                /\ reply' = NeedProfile
                /\ UNCHANGED last_get
           ELSE IF args = <<>>
           THEN /\ USERS' = U1
                /\ reply' = [kind |-> "water_usage"]
                /\ UNCHANGED last_get
           ELSE IF ~Truthy(amount) \/ LeqZero(amount)
           THEN /\ USERS' = U1
                /\ reply' = [kind |-> "bad_water"]
                /\ UNCHANGED last_get
           ELSE /\ USERS' = [U1 EXCEPT ![u] = g.user]
                /\ last_get' = RecordGet(g, now)
                /\ reply' = IF water_goal = ValueError THEN Raised
                            ELSE [kind |-> "water_logged", amount |-> amount, temp |-> g.ret,
                                  water_goal |-> water_goal,
                                  remaining |-> Remaining(water_goal, g.user.logged_water)]
        /\ UNCHANGED <<profile_conv, food_conv, user_data, OWM_API_KEY, today, now>>

check_progress(u, resp) ==
    LET U1 == get_user(USERS, u, today)
        user == U1[u]
        g == get_temperature(user.city, user, OWM_API_KEY, now, resp)
        water_goal == calc_water_goal(user.weight, user.activity, g.ret)
        calorie_goal == calorie_goal_of(user)
    IN  /\ IF ~ensure_profile(user)
           THEN /\ USERS' = U1
                /\ reply' = NeedProfile
                /\ UNCHANGED last_get
           ELSE /\ USERS' = [U1 EXCEPT ![u] = g.user]
                /\ last_get' = RecordGet(g, now)
                /\ reply' = IF \/ water_goal = ValueError
                               \/ calorie_goal = ValueError
                               \/ user.logged_calories = NaN   \* int(nan) in the reply
                            THEN Raised
                            ELSE [kind |-> "progress", temp |-> g.ret,
                                  water_goal |-> water_goal, calorie_goal |-> calorie_goal,
                                  logged_water |-> user.logged_water,
                                  logged_calories |-> user.logged_calories,
                                  burned_calories |-> user.burned_calories,
                                  water_left |-> Remaining(water_goal, user.logged_water)]
        /\ UNCHANGED <<profile_conv, food_conv, user_data, OWM_API_KEY, today, now>>

\* WORKOUT_KCAL_PER_MIN.get(workout_type, 6); the keys of the table are Russian
\* words, written here in Latin letters
WORKOUT_KCAL_PER_MIN(workout_type) ==
    CASE workout_type = <<"b", "e", "g">> -> 10
      [] workout_type = <<"k", "h", "o", "d", "b", "a">> -> 4
      [] workout_type = <<"v", "e", "l", "o", "s", "i", "p", "e", "d">> -> 7
      [] workout_type = <<"p", "l", "a", "v", "a", "n", "i", "e">> -> 8
      [] workout_type = <<"s", "i", "l", "o", "v", "a", "y", "a">> -> 6
      [] workout_type = <<"y", "o", "g", "a">> -> 3
      [] OTHER -> 6

\* context.args of /log_workout: none, a type alone, a type and minutes
WorkoutArgs ==
    {<<>>, <<<<"B", "e", "g">>>>, <<<<"K", "h", "o", "d", "b", "a">>, <<"3", "0">>>>,
     <<<<"d", "a", "n", "c", "e">>, <<"2", "0">>>>, <<<<"b", "e", "g">>, <<"-", "5">>>>}

log_workout(u, args) ==
    LET U1 == get_user(USERS, u, today)
        user == U1[u]
        workout_type == Lower(Join(SubSeq(args, 1, Len(args) - 1)))
        minutes == parse_int(args[Len(args)])
        burned == PyInt(WORKOUT_KCAL_PER_MIN(workout_type) * minutes.n)
        extra_water == (minutes.n \div 30) * 200
    IN  /\ IF ~ensure_profile(user)
           THEN /\ USERS' = U1
                /\ reply' = NeedProfile
           ELSE IF Len(args) < 2
           THEN /\ USERS' = U1
                /\ reply' = [kind |-> "workout_usage"]
           ELSE IF ~Truthy(minutes) \/ LeqZero(minutes)
           THEN /\ USERS' = U1
                /\ reply' = [kind |-> "bad_minutes"]
           ELSE /\ USERS' = [U1 EXCEPT
                       ![u].burned_calories = PyAdd(user.burned_calories, burned),
                       ![u].history = log_history(user, "workout", burned, now)]
                /\ reply' = [kind |-> "workout_logged", burned |-> burned,
                             extra_water |-> IF extra_water # 0 THEN PyInt(extra_water)
                                             ELSE PyNone]
        /\ UNCHANGED <<profile_conv, food_conv, user_data, OWM_API_KEY, today, now, last_get>>

RECURSIVE PlotTotal(_, _)
\* the last point of a curve of plot_progress: the amounts of the events of
\* the kinds in plus, less those of the kind "workout" when the curve is the
\* calorie curve
PlotTotal(history, curve) ==
    IF history = <<>> THEN PyInt(0)
    ELSE LET h == history[Len(history)]
             rest == PlotTotal(SubSeq(history, 1, Len(history) - 1), curve)
         IN  IF curve = "water" /\ h.kind = "water" THEN PyAdd(rest, h.amount)
             ELSE IF curve = "calories" /\ h.kind = "food" THEN PyAdd(rest, h.amount)
             ELSE IF curve = "calories" /\ h.kind = "workout"
                  THEN PyAdd(rest, PyInt(-h.amount.n))
             ELSE rest

plot_progress(u, resp) ==
    LET U1 == get_user(USERS, u, today)
        user == U1[u]
        g == get_temperature(user.city, user, OWM_API_KEY, now, resp)
        water_goal == calc_water_goal(user.weight, user.activity, g.ret)
        calorie_goal == calorie_goal_of(user)
    IN  /\ IF ~ensure_profile(user)
           THEN /\ USERS' = U1
                /\ reply' = NeedProfile
                /\ UNCHANGED last_get
           ELSE /\ USERS' = [U1 EXCEPT ![u] = g.user]
                /\ last_get' = RecordGet(g, now)
                /\ reply' = IF water_goal = ValueError \/ calorie_goal = ValueError
                            THEN Raised
                            ELSE IF user.history = <<>>
                            THEN [kind |-> "plot_no_data", temp |-> g.ret,
                                  water_goal |-> water_goal, calorie_goal |-> calorie_goal]
                            ELSE [kind |-> "plot", temp |-> g.ret,
                                  water_goal |-> water_goal, calorie_goal |-> calorie_goal,
                                  water |-> PlotTotal(user.history, "water"),
                                  calories |-> PlotTotal(user.history, "calories")]
        /\ UNCHANGED <<profile_conv, food_conv, user_data, OWM_API_KEY, today, now>>

\* max(calorie_goal - logged_calories, 0) > 0; max(nan, 0) is nan, and nan > 0
\* is False
CalorieLeft(calorie_goal, logged_calories) ==
    IF logged_calories = NaN THEN NaN
    ELSE LET left == Tenths(calorie_goal) - Tenths(logged_calories)
         IN  PyFloat(IF left > 0 THEN left ELSE 0)

recommend(u, resp) ==
    LET U1 == get_user(USERS, u, today)
        user == U1[u]
        g == get_temperature(user.city, user, OWM_API_KEY, now, resp)
        water_goal == calc_water_goal(user.weight, user.activity, g.ret)
        calorie_goal == calorie_goal_of(user)
    IN  /\ IF ~ensure_profile(user)
           THEN /\ USERS' = U1
                /\ reply' = NeedProfile
                /\ UNCHANGED last_get
           ELSE /\ USERS' = [U1 EXCEPT ![u] = g.user]
                /\ last_get' = RecordGet(g, now)
                /\ reply' = IF water_goal = ValueError \/ calorie_goal = ValueError
                            THEN Raised
                            ELSE [kind |-> "recommend", temp |-> g.ret,
                                  water_goal |-> water_goal, calorie_goal |-> calorie_goal,
                                  water_left |-> Remaining(water_goal, user.logged_water),
                                  calorie_left |->
                                      CalorieLeft(calorie_goal, user.logged_calories)]
        /\ UNCHANGED <<profile_conv, food_conv, user_data, OWM_API_KEY, today, now>>

\* reset_day that leaves the burned calories
reset_day_keeps_burned(u) ==
    /\ USERS' = [get_user(USERS, u, today) EXCEPT
                    ![u] = [Rollover(get_user(USERS, u, today)[u], today) EXCEPT
                               !.burned_calories = get_user(USERS, u, today)[u].burned_calories]]
    /\ reply' = [kind |-> "day_reset"]
    /\ UNCHANGED <<profile_conv, food_conv, user_data, OWM_API_KEY, today, now, last_get>>

\* reset_day that also ends the food conversation of the user
reset_day_ends_food_flow(u) ==
    /\ USERS' = [get_user(USERS, u, today) EXCEPT
                    ![u] = Rollover(get_user(USERS, u, today)[u], today)]
    /\ reply' = [kind |-> "day_reset"]
    /\ food_conv' = [food_conv EXCEPT ![u] = END]
    /\ user_data' = [user_data EXCEPT ![u] = NoData]
    /\ UNCHANGED <<profile_conv, OWM_API_KEY, today, now, last_get>>

reset_day(u) ==
    /\ USERS' = [get_user(USERS, u, today) EXCEPT
                    ![u] = Rollover(get_user(USERS, u, today)[u], today)]
    /\ reply' = [kind |-> "day_reset"]
    /\ UNCHANGED <<profile_conv, food_conv, user_data, OWM_API_KEY, today, now, last_get>>

(***************************************************************************)
(* The food flow (food_conv).  profile_conv is added to the application    *)
(* first, so a text goes to food_conv only when the user has no profile    *)
(* conversation; /log_food is no handler of profile_conv in any state, so  *)
(* it reaches food_conv's entry point whenever the user has no food        *)
(* conversation.                                                           *)
(***************************************************************************)
\* what fetch_food_kcal can come to: None (no product, no usable energy value,
\* a status other than 200, an exception) or a product with its kcal per 100 g
FoodResults ==
    {PyNone, [t |-> "food", name |-> PyStr(<<"P", "i", "e">>), kcal_per_100g |-> PyFloat(2500)]}

\* a lookup that finds the product
FoodFound == [t |-> "food", name |-> PyStr(<<"P", "i", "e">>), kcal_per_100g |-> PyFloat(2500)]

\* context.args of /log_food: none, or the tokens of a product name
FoodArgs == {<<>>, <<<<"p", "i", "e">>>>}

NameTexts == {<<"p", "i", "e", " ">>}

KcalTexts == InvalidTexts \cup {NanText, <<"2", "5", "0">>}

GramsTexts == InvalidTexts \cup {NanText, <<"1", "5", "0">>}

\* kcal_per_100g * grams / 100.0 of two floats
Consumed(kcal_per_100g, grams) ==
    IF kcal_per_100g = NaN \/ grams = NaN THEN NaN
    ELSE PyFloat((kcal_per_100g.x * grams.x) \div 1000)

\* the lookup part that log_food_start and log_food_name share
FoodLookup(u, name, food) ==
    IF food # PyNone
    THEN /\ user_data' = [user_data EXCEPT ![u] =
                [food_name |-> PyStr(name), food_kcal |-> food.kcal_per_100g]]
         /\ food_conv' = [food_conv EXCEPT ![u] = "FOOD_GRAMS"]
         /\ reply' = [kind |-> "food_found", name |-> food.name, kcal |-> food.kcal_per_100g]
    ELSE /\ user_data' = [user_data EXCEPT ![u].food_name = PyStr(name)]
         /\ food_conv' = [food_conv EXCEPT ![u] = "FOOD_KCAL_MANUAL"]
         /\ reply' = [kind |-> "ask_kcal"]

log_food_start(u, args, food) ==
    /\ food_conv[u] = END
    /\ LET U1 == get_user(USERS, u, today)
       IN  /\ USERS' = U1
           /\ IF ~ensure_profile(U1[u])
              THEN /\ reply' = NeedProfile
                   /\ UNCHANGED <<food_conv, user_data>>
              ELSE IF args # <<>>
              THEN FoodLookup(u, Strip(Join(args)), food)
              ELSE /\ food_conv' = [food_conv EXCEPT ![u] = "FOOD_NAME"]
                   /\ reply' = [kind |-> "ask_name"]
                   /\ UNCHANGED user_data
    /\ UNCHANGED <<profile_conv, OWM_API_KEY, today, now, last_get>>

log_food_name(u, text, food) ==
    /\ profile_conv[u] = END
    /\ food_conv[u] = "FOOD_NAME"
    /\ FoodLookup(u, Strip(text), food)
    /\ UNCHANGED <<USERS, profile_conv, OWM_API_KEY, today, now, last_get>>

log_food_kcal_manual(u, text) ==
    /\ profile_conv[u] = END
    /\ food_conv[u] = "FOOD_KCAL_MANUAL"
    /\ LET kcal == parse_float(text)
       IN  IF kcal = PyNone \/ LeqZero(kcal)
           THEN /\ reply' = [kind |-> "bad_kcal"]
                /\ UNCHANGED <<food_conv, user_data>>
           ELSE /\ user_data' = [user_data EXCEPT ![u].food_kcal = kcal]
                /\ food_conv' = [food_conv EXCEPT ![u] = "FOOD_GRAMS"]
                /\ reply' = [kind |-> "ask_grams"]
    /\ UNCHANGED <<USERS, profile_conv, OWM_API_KEY, today, now, last_get>>

\* log_food_grams that writes to the stored record without get_user
log_food_grams_unresolved(u, text) ==
    /\ profile_conv[u] = END
    /\ food_conv[u] = "FOOD_GRAMS"
    /\ LET grams == parse_float(text)
           user == USERS[u]
           kcal_per_100g == user_data[u].food_kcal
           consumed == Consumed(kcal_per_100g, grams)
       IN  IF grams = PyNone \/ LeqZero(grams)
           THEN /\ reply' = [kind |-> "bad_grams"]
                /\ UNCHANGED <<USERS, food_conv, user_data>>
           ELSE IF kcal_per_100g = PyNone
           THEN /\ UNCHANGED <<USERS, user_data>>
                /\ food_conv' = [food_conv EXCEPT ![u] = END]
                /\ reply' = [kind |-> "food_failed"]
           ELSE /\ USERS' = [USERS EXCEPT
                       ![u].logged_calories = PyAdd(user.logged_calories, consumed),
                       ![u].history = log_history(user, "food", consumed, now)]
                /\ food_conv' = [food_conv EXCEPT ![u] = END]
                /\ user_data' = [user_data EXCEPT ![u] = NoData]
                /\ reply' = [kind |-> "food_logged", name |-> user_data[u].food_name,
                             consumed |-> consumed]
    /\ UNCHANGED <<profile_conv, OWM_API_KEY, today, now, last_get>>

log_food_grams(u, text) ==
    /\ profile_conv[u] = END
    /\ food_conv[u] = "FOOD_GRAMS"
    /\ LET grams == parse_float(text)
           U1 == get_user(USERS, u, today)
           user == U1[u]
           kcal_per_100g == user_data[u].food_kcal
           consumed == Consumed(kcal_per_100g, grams)
       IN  IF grams = PyNone \/ LeqZero(grams)
           THEN /\ reply' = [kind |-> "bad_grams"]
                /\ UNCHANGED <<USERS, food_conv, user_data>>
           ELSE IF kcal_per_100g = PyNone
           THEN /\ USERS' = U1
                /\ food_conv' = [food_conv EXCEPT ![u] = END]
                /\ reply' = [kind |-> "food_failed"]
                /\ UNCHANGED user_data
           ELSE /\ USERS' = [U1 EXCEPT
                       ![u].logged_calories = PyAdd(user.logged_calories, consumed),
                       ![u].history = log_history(user, "food", consumed, now)]
                /\ food_conv' = [food_conv EXCEPT ![u] = END]
                /\ user_data' = [user_data EXCEPT ![u] = NoData]
                /\ reply' = [kind |-> "food_logged", name |-> user_data[u].food_name,
                             consumed |-> consumed]
    /\ UNCHANGED <<profile_conv, OWM_API_KEY, today, now, last_get>>

log_food_cancel(u) ==
    /\ profile_conv[u] = END
    /\ food_conv[u] # END
    /\ user_data' = [user_data EXCEPT ![u] = NoData]
    /\ food_conv' = [food_conv EXCEPT ![u] = END]
    /\ reply' = [kind |-> "food_cancelled"]
    /\ UNCHANGED <<USERS, profile_conv, OWM_API_KEY, today, now, last_get>>

\* the updates no handler of group 0 takes; log_all_updates (group -1) logs them
\* as it logs every update, and nothing is sent
Unhandled(u, upd) ==
    CASE upd = "text" -> profile_conv[u] = END /\ food_conv[u] = END
      [] upd = "/set_profile" -> profile_conv[u] # END
      [] upd = "/log_food" -> food_conv[u] # END
      [] upd = "/cancel" -> profile_conv[u] = END /\ food_conv[u] = END

log_all_updates(u, upd) ==
    /\ Unhandled(u, upd)
    /\ reply' = NoReply
    /\ UNCHANGED <<USERS, profile_conv, food_conv, user_data, OWM_API_KEY, today, now, last_get>>

(***************************************************************************)
(* Time: the date and the clock move between updates.                      *)
(***************************************************************************)
NewDay ==
    /\ today < MaxDay
    /\ today' = today + 1
    /\ UNCHANGED <<USERS, profile_conv, food_conv, user_data, OWM_API_KEY, now, reply, last_get>>

\* the steps of the clock, in minutes
ClockSteps == {5, 26}

Advance ==
    \E d \in ClockSteps :
        /\ now + d <= MaxNow
        /\ now' = now + d
        /\ UNCHANGED <<USERS, profile_conv, food_conv, user_data, OWM_API_KEY, today, reply, last_get>>

(***************************************************************************)
(* Spec: one day of a process started without a weather key, from its      *)
(* start: every handler, for one user.                                     *)
(***************************************************************************)
\* the bound on the history of a day
HistoryWithin(n) == \A u \in DOMAIN USERS : Len(USERS[u].history) <= n

NoWeather == [ok |-> FALSE, temp |-> PyNone]

UpdateKinds == {"text", "/set_profile", "/log_food", "/cancel"}

Next ==
    \E u \in UserIds :
        \/ set_profile(u) /\ Handled
        \/ \E text \in WeightTexts : set_weight(u, text) /\ Handled
        \/ \E text \in HeightTexts : set_height(u, text) /\ Handled
        \/ \E text \in AgeTexts : set_age(u, text) /\ Handled
        \/ \E text \in SexTexts : set_sex(u, text) /\ Handled
        \/ \E text \in ActivityTexts : set_activity(u, text) /\ Handled
        \/ \E text \in CityTexts : set_city(u, text) /\ Handled
        \/ \E text \in ChoiceTexts : set_manual_choice(u, text) /\ Handled
        \/ \E text \in CaloriesTexts : set_manual_calories(u, text) /\ Handled
        \/ cancel_profile(u) /\ Handled
        \/ \E args \in FoodArgs, food \in FoodResults : log_food_start(u, args, food) /\ Handled
        \/ \E text \in NameTexts, food \in FoodResults : log_food_name(u, text, food) /\ Handled
        \/ \E text \in KcalTexts : log_food_kcal_manual(u, text) /\ Handled
        \/ \E text \in GramsTexts : log_food_grams(u, text) /\ HistoryWithin(MaxFlowHist)' /\ Handled
        \/ log_food_cancel(u) /\ Handled
        \/ \E upd \in UpdateKinds : log_all_updates(u, upd) /\ Handled
        \/ start(u) /\ Handled
        \/ help_command(u) /\ Handled
        \/ show_profile(u, NoWeather) /\ Handled
        \/ \E args \in WaterArgs : log_water(u, args, NoWeather) /\ HistoryWithin(MaxFlowHist)' /\ Handled
        \/ check_progress(u, NoWeather) /\ Handled
        \/ reset_day(u) /\ Handled
        \/ \E args \in WorkoutArgs : log_workout(u, args) /\ HistoryWithin(MaxFlowHist)' /\ Handled
        \/ plot_progress(u, NoWeather) /\ Handled
        \/ recommend(u, NoWeather) /\ Handled

Spec == Init /\ [][Next]_vars

(***************************************************************************)
(* SpecLedger: the days of a user who has been through the profile flow,   *)
(* to its end or up to the activity minutes: the food flow and the ledger  *)
(* commands, with the date changing between updates.                       *)
(* The process runs either without a weather key or with one and a         *)
(* temperature fetched at minute 0; the clock stands still, so that entry  *)
(* stays within its window.                                                *)
(***************************************************************************)
Oslo == PyStr(<<"O", "s", "l", "o">>)

\* a record the profile flow leaves behind
CompleteUser(weight, activity, city) ==
    [NewUser(0) EXCEPT !.weight = weight, !.height = PyInt(175), !.age = PyInt(30),
                       !.activity = activity, !.city = city]

InitLedger ==
    /\ OWM_API_KEY \in BOOLEAN
    /\ \E activity \in {PyNone, PyInt(0), PyInt(45)} :
          USERS = (1 :> [CompleteUser(PyFloat(705), activity, Oslo) EXCEPT
                            !.last_temp = IF OWM_API_KEY THEN PyFloat(320) ELSE PyNone,
                            !.last_temp_ts = IF OWM_API_KEY THEN PyTime(0) ELSE PyNone])
    /\ profile_conv = [u \in UserIds |-> END]
    /\ food_conv = [u \in UserIds |-> END]
    /\ user_data = [u \in UserIds |-> NoData]
    /\ today = 0
    /\ now = 0
    /\ reply = NoReply
    /\ last_get = IF OWM_API_KEY
                  THEN [t |-> "get", at |-> 0, called |-> TRUE, failed |-> FALSE,
                        ret |-> PyFloat(320)]
                  ELSE NoGet
    /\ Idle

NextLedger ==
    \/ \E u \in UserIds :
        \/ \E args \in FoodArgs, food \in FoodResults : log_food_start(u, args, food) /\ Handled
        \/ \E text \in NameTexts, food \in FoodResults : log_food_name(u, text, food) /\ Handled
        \/ \E text \in KcalTexts : log_food_kcal_manual(u, text) /\ Handled
        \/ \E text \in GramsTexts : log_food_grams(u, text) /\ HistoryWithin(MaxHist)' /\ Handled
        \/ log_food_cancel(u) /\ Handled
        \/ \E upd \in UpdateKinds : log_all_updates(u, upd) /\ Handled
        \/ \E args \in WaterArgs : log_water(u, args, NoWeather) /\ HistoryWithin(MaxFlowHist)' /\ Handled
        \/ check_progress(u, NoWeather) /\ Handled
        \/ reset_day(u) /\ Handled
        \/ \E args \in WorkoutArgs : log_workout(u, args) /\ HistoryWithin(MaxFlowHist)' /\ Handled
        \/ plot_progress(u, NoWeather) /\ Handled
        \/ recommend(u, NoWeather) /\ Handled
        \/ show_profile(u, NoWeather) /\ Handled
        \/ start(u) /\ Handled
        \/ help_command(u) /\ Handled
    \/ NewDay /\ Handled

SpecLedger == InitLedger /\ [][NextLedger]_vars

(***************************************************************************)
(* SpecProfile: the profile flow and the commands that show the goals, in  *)
(* a process started without a weather key, with the date changing between *)
(* updates.  Water is the only thing logged.                               *)
(***************************************************************************)
NextProfile ==
    \/ \E u \in UserIds :
        \/ set_profile(u) /\ Handled
        \/ \E text \in WeightTexts : set_weight(u, text) /\ Handled
        \/ \E text \in HeightTexts : set_height(u, text) /\ Handled
        \/ \E text \in AgeTexts : set_age(u, text) /\ Handled
        \/ \E text \in SexTexts : set_sex(u, text) /\ Handled
        \/ \E text \in ActivityTexts : set_activity(u, text) /\ Handled
        \/ \E text \in CityTexts : set_city(u, text) /\ Handled
        \/ \E text \in ChoiceTexts : set_manual_choice(u, text) /\ Handled
        \/ \E text \in CaloriesTexts : set_manual_calories(u, text) /\ Handled
        \/ cancel_profile(u) /\ Handled
        \/ \E upd \in UpdateKinds \ {"/log_food"} : log_all_updates(u, upd) /\ Handled
        \/ show_profile(u, NoWeather) /\ Handled
        \/ check_progress(u, NoWeather) /\ Handled
        \/ plot_progress(u, NoWeather) /\ Handled
        \/ recommend(u, NoWeather) /\ Handled
        \/ reset_day(u) /\ Handled
        \/ \E args \in WaterArgs : log_water(u, args, NoWeather) /\ HistoryWithin(MaxFlowHist)' /\ Handled
    \/ NewDay /\ Handled

SpecProfile == Init /\ [][NextProfile]_vars

(***************************************************************************)
(* SpecWeather: the temperature cache of a user whose profile is complete, *)
(* with the clock moving between updates and the weather request failing   *)
(* or answering as it may.                                                 *)
(***************************************************************************)
InitWeather ==
    /\ OWM_API_KEY \in BOOLEAN
    /\ \E city \in {PyStr(<<>>), Oslo} :
          USERS = (1 :> CompleteUser(PyFloat(705), PyInt(45), city))
    /\ profile_conv = [u \in UserIds |-> END]
    /\ food_conv = [u \in UserIds |-> END]
    /\ user_data = [u \in UserIds |-> NoData]
    /\ today = 0
    /\ now = 0
    /\ reply = NoReply
    /\ last_get = NoGet
    /\ Idle

NextWeather ==
    \/ \E u \in UserIds, resp \in WeatherResponses :
        \/ show_profile(u, resp) /\ Handled
        \/ check_progress(u, resp) /\ Handled
        \/ \E args \in WaterArgs : log_water(u, args, resp) /\ HistoryWithin(MaxFlowHist)' /\ Handled
    \/ Advance /\ Handled

SpecWeather == InitWeather /\ [][NextWeather]_vars

(***************************************************************************)
(* Properties.                                                             *)
(***************************************************************************)
IsNumber(v) == v.t \in {"int", "float"}

Positive(v) == IsNumber(v) /\ Tenths(v) > 0

NonNegative(v) == IsNumber(v) /\ Tenths(v) >= 0

\* /log_water without a usable amount, from a user whose profile is complete:
\* the handler resolves the record, replies and writes nothing else
ResolveStep(u) ==
    /\ u \in DOMAIN USERS
    /\ ensure_profile(USERS[u])
    /\ reply'.kind \in {"water_usage", "bad_water"}
    /\ \E args \in {a \in WaterArgs : a = <<>> \/ ~Positive(parse_int(a[1]))} :
          log_water(u, args, NoWeather)

SameProfile(a, b) ==
    /\ a.weight = b.weight /\ a.height = b.height /\ a.age = b.age /\ a.sex = b.sex
    /\ a.activity = b.activity /\ a.city = b.city
    /\ a.manual_calorie_goal = b.manual_calorie_goal

SameCache(a, b) == a.last_temp = b.last_temp /\ a.last_temp_ts = b.last_temp_ts

\* C1: a resolve of a record whose last-reset date is not the current date
\* leaves the three accumulators at 0, the history empty and the last-reset
\* date at the current date, with the profile fields and the temperature
\* cache entry as they were; a resolve on the last-reset date changes nothing
\* in the record.
C1_DailyRollover ==
    [][\A u \in UserIds :
          ResolveStep(u) =>
              IF USERS[u].last_date # today
              THEN /\ USERS'[u].logged_water = PyInt(0)
                   /\ USERS'[u].logged_calories = PyInt(0)
                   /\ USERS'[u].burned_calories = PyInt(0)
                   /\ USERS'[u].history = <<>>
                   /\ USERS'[u].last_date = today
                   /\ SameProfile(USERS'[u], USERS[u])
                   /\ SameCache(USERS'[u], USERS[u])
              ELSE USERS'[u] = USERS[u]]_vars

\* a record resolved on day 1, after the day it was created on, with its
\* ledger empty and its cache entry of day 0 still there
C1_Witness ==
    /\ 1 \in DOMAIN USERS
    /\ reply = [kind |-> "water_usage"]
    /\ today = 1
    /\ USERS[1].last_date = 1
    /\ USERS[1].history = <<>>
    /\ USERS[1].logged_calories = PyInt(0)
    /\ USERS[1].last_temp = PyFloat(320)

\* C2: no user has a profile conversation and a food conversation at once.
C2_OneSession ==
    \A u \in UserIds : ~(profile_conv[u] # END /\ food_conv[u] # END)

AllSet(user) ==
    /\ user.weight # PyNone /\ user.height # PyNone
    /\ user.age # PyNone /\ user.activity # PyNone

\* the replies a gated command sends once the gate has passed
PastGate ==
    {"profile", "water_usage", "bad_water", "water_logged", "progress",
     "ask_name", "ask_kcal", "food_found", "exception"}

\* C3: the gate of the commands passes if and only if weight, height, age and
\* activity minutes are all set: a command answers "fill in the profile" only
\* to a user with one of them unset, and goes on only for a user with all set.
C3_GateIffAllSet ==
    \A u \in DOMAIN USERS :
        /\ reply = NeedProfile => ~AllSet(USERS[u])
        /\ reply.kind \in PastGate => AllSet(USERS[u])

\* context.args of /log_water with an amount the handler takes
ValidWaterArgs == {a \in WaterArgs : a # <<>> /\ Positive(parse_int(a[1]))}

\* a command of a user with a complete profile that calls get_temperature
GetStep(u) ==
    /\ u \in DOMAIN USERS
    /\ ensure_profile(USERS[u])
    /\ \E resp \in WeatherResponses :
          \/ show_profile(u, resp)
          \/ check_progress(u, resp)
          \/ \E args \in ValidWaterArgs : log_water(u, args, resp)

\* the user has a city and the process a weather key
Configured(u) == OWM_API_KEY /\ Truthy(USERS[u].city)

\* C4, as stated: of two get calls within 5 minutes of each other at most one
\* makes the weather request, whatever came of the first; and a get call 31
\* minutes or more after the one before always makes the request.
C4_AsStated ==
    [][\A u \in UserIds :
          GetStep(u) /\ Configured(u) /\ last_get # NoGet =>
              /\ now - last_get.at <= 5 => ~(last_get.called /\ last_get'.called)
              /\ now - last_get.at >= 31 => last_get'.called]_vars

\* C4, amended: of two get calls within 5 minutes of each other at most one
\* makes the weather request when the first returned a temperature; when the
\* request of the first failed, the second makes the request again; and a get
\* call 31 minutes or more after the one before always makes the request.
C4_CallCount ==
    [][\A u \in UserIds :
          GetStep(u) /\ Configured(u) /\ last_get # NoGet =>
              /\ now - last_get.at <= 5 /\ ~last_get.failed =>
                    ~(last_get.called /\ last_get'.called)
              /\ now - last_get.at <= 5 /\ last_get.failed => last_get'.called
              /\ now - last_get.at >= 31 => last_get'.called]_vars

\* a get call at minute 5 answered from the entry that the call at minute 0 fetched
C4_Witness ==
    /\ 1 \in DOMAIN USERS
    /\ last_get = [t |-> "get", at |-> 5, called |-> FALSE, failed |-> FALSE,
                   ret |-> PyFloat(320)]
    /\ USERS[1].last_temp_ts = PyTime(0)
    /\ reply.kind = "progress"
    /\ reply.temp = PyFloat(320)

\* C5: get returns the stored temperature, makes no request and leaves the
\* entry as it is when the entry is less than 30 minutes old; with no entry or
\* one of 30 minutes or more it makes the request, and whatever temperature it
\* returns is the one it has just stored at the current minute; with no city
\* or no weather key it returns None and makes no request.
C5_CacheWindow ==
    [][\A u \in UserIds :
          GetStep(u) =>
              IF ~Configured(u)
              THEN /\ reply'.temp = PyNone
                   /\ last_get' = last_get
                   /\ SameCache(USERS'[u], USERS[u])
              ELSE IF USERS[u].last_temp_ts # PyNone /\ now - USERS[u].last_temp_ts.m < 30
              THEN /\ reply'.temp = USERS[u].last_temp
                   /\ ~last_get'.called
                   /\ last_get'.at = now
                   /\ SameCache(USERS'[u], USERS[u])
              ELSE /\ last_get'.called
                   /\ last_get'.at = now
                   /\ reply'.temp # PyNone =>
                         /\ USERS'[u].last_temp = reply'.temp
                         /\ USERS'[u].last_temp_ts = PyTime(now)]_vars

\* a get call at minute 25 answered from the entry of minute 0
C5_Witness ==
    /\ 1 \in DOMAIN USERS
    /\ last_get = [t |-> "get", at |-> 25, called |-> FALSE, failed |-> FALSE,
                   ret |-> PyFloat(200)]
    /\ USERS[1].last_temp_ts = PyTime(0)
    /\ USERS[1].last_temp = PyFloat(200)
    /\ reply.kind = "profile"
    /\ reply.temp = PyFloat(200)

\* C6: when the weather request fails, get returns None and leaves the stored
\* temperature and its timestamp as they were, and the water goal of that
\* command has no heat bonus.
C6_FailedRefetch ==
    [][\A u \in UserIds :
          GetStep(u) /\ Configured(u) /\ last_get'.failed =>
              /\ SameCache(USERS'[u], USERS[u])
              /\ reply'.temp = PyNone
              /\ reply'.water_goal =
                    PyInt(Trunc(USERS[u].weight.x * 30) + (USERS[u].activity.n \div 30) * 500)]_vars

\* a failed request at minute 30 or later, with the temperature of minute 0,
\* which would earn the heat bonus, still stored
C6_Witness ==
    /\ 1 \in DOMAIN USERS
    /\ last_get.t = "get" /\ last_get.failed
    /\ last_get.at >= 30
    /\ USERS[1].last_temp = PyFloat(320)
    /\ USERS[1].last_temp_ts = PyTime(0)
    /\ reply.kind = "water_logged"
    /\ reply.temp = PyNone

\* the record a handler works on: the one get_user returns
Resolved(u) == get_user(USERS, u, today)[u]

SameLedger(a, b) ==
    /\ a.logged_water = b.logged_water /\ a.logged_calories = b.logged_calories
    /\ a.burned_calories = b.burned_calories /\ a.history = b.history

\* a text step that re-prompts: the reply named, the conversations where they
\* were, and no profile field, accumulator or history entry changed
Reprompt(u, kind) ==
    /\ reply'.kind = kind
    /\ profile_conv' = profile_conv
    /\ food_conv' = food_conv
    /\ USERS' = USERS

\* C7: in AwaitWeight, AwaitHeight, AwaitAge, AwaitActivity,
\* AwaitManualCalorieValue, AwaitManualKcal and AwaitGrams a text that does not
\* parse to a number in the accepted range (> 0, for activity >= 0) is answered
\* with the re-prompt of the state, the flow stays in the state and the record
\* is unchanged; a text that parses to a number in range moves the flow on.
C7_ValidationReprompt ==
    [][\A u \in UserIds :
          /\ \A text \in WeightTexts : set_weight(u, text) =>
                IF Positive(parse_float(text)) THEN profile_conv'[u] = "HEIGHT"
                ELSE Reprompt(u, "bad_weight")
          /\ \A text \in HeightTexts : set_height(u, text) =>
                IF Positive(parse_int(text)) THEN profile_conv'[u] = "AGE"
                ELSE Reprompt(u, "bad_height")
          /\ \A text \in AgeTexts : set_age(u, text) =>
                IF Positive(parse_int(text)) THEN profile_conv'[u] = "SEX"
                ELSE Reprompt(u, "bad_age")
          /\ \A text \in ActivityTexts : set_activity(u, text) =>
                IF NonNegative(parse_int(text)) THEN profile_conv'[u] = "CITY"
                ELSE Reprompt(u, "bad_activity")
          /\ \A text \in CaloriesTexts : set_manual_calories(u, text) =>
                IF Positive(parse_int(text)) THEN profile_conv'[u] = END
                ELSE Reprompt(u, "bad_calories")
          /\ \A text \in KcalTexts : log_food_kcal_manual(u, text) =>
                IF Positive(parse_float(text)) THEN food_conv'[u] = "FOOD_GRAMS"
                ELSE Reprompt(u, "bad_kcal")
          /\ \A text \in GramsTexts : log_food_grams(u, text) =>
                IF Positive(parse_float(text)) THEN food_conv'[u] = END
                ELSE Reprompt(u, "bad_grams")]_vars

\* the states of profile_conv in the order of the flow
ProfileStates ==
    <<"WEIGHT", "HEIGHT", "AGE", "SEX", "ACTIVITY", "CITY", "MANUAL_CALORIES",
      "CALORIES_VALUE">>

StateIndex(st) == CHOOSE i \in 1..Len(ProfileStates) : ProfileStates[i] = st

\* C8: /set_profile opens the flow in AwaitWeight; a step that moves the
\* profile conversation moves it to the next state of the order or ends it; a
\* valid text stores its field and moves on; AwaitSex and AwaitCity take every
\* text; at AwaitManualChoice "yes" or "y" goes to AwaitManualCalorieValue and
\* any other text ends the flow with the manual override None.
C8_ProfileFlowOrder ==
    [][\A u \in UserIds :
          /\ set_profile(u) => profile_conv'[u] = "WEIGHT"
          /\ profile_conv[u] # END /\ profile_conv'[u] \notin {profile_conv[u], END} =>
                StateIndex(profile_conv'[u]) = StateIndex(profile_conv[u]) + 1
          /\ profile_conv[u] = END /\ profile_conv'[u] # END => profile_conv'[u] = "WEIGHT"
          /\ \A text \in WeightTexts : set_weight(u, text) /\ Positive(parse_float(text)) =>
                profile_conv'[u] = "HEIGHT" /\ USERS'[u].weight = parse_float(text)
          /\ \A text \in HeightTexts : set_height(u, text) /\ Positive(parse_int(text)) =>
                profile_conv'[u] = "AGE" /\ USERS'[u].height = parse_int(text)
          /\ \A text \in AgeTexts : set_age(u, text) /\ Positive(parse_int(text)) =>
                profile_conv'[u] = "SEX" /\ USERS'[u].age = parse_int(text)
          /\ \A text \in SexTexts : set_sex(u, text) =>
                /\ profile_conv'[u] = "ACTIVITY"
                /\ USERS'[u].sex = IF Strip(text) = <<"-">> THEN PyNone ELSE normalize_sex(text)
          /\ \A text \in ActivityTexts : set_activity(u, text) /\ NonNegative(parse_int(text)) =>
                profile_conv'[u] = "CITY" /\ USERS'[u].activity = parse_int(text)
          /\ \A text \in CityTexts : set_city(u, text) =>
                profile_conv'[u] = "MANUAL_CALORIES" /\ USERS'[u].city = PyStr(Strip(text))
          /\ \A text \in ChoiceTexts : set_manual_choice(u, text) =>
                IF Lower(Strip(text)) \in {<<"y", "e", "s">>, <<"y">>}
                THEN profile_conv'[u] = "CALORIES_VALUE" /\ USERS' = USERS
                ELSE /\ profile_conv'[u] = END
                     /\ reply'.kind = "profile_saved"
                     /\ USERS'[u].manual_calorie_goal = PyNone]_vars

\* the flow gone through with valid texts and the override declined
C8_Witness ==
    /\ 1 \in DOMAIN USERS
    /\ reply = [kind |-> "profile_saved"]
    /\ profile_conv[1] = END
    /\ USERS[1].weight = PyFloat(705)
    /\ USERS[1].height = PyInt(175)
    /\ USERS[1].age = PyInt(30)
    /\ USERS[1].sex = PyStr(<<"m", "a", "l", "e">>)
    /\ USERS[1].activity = PyInt(45)
    /\ USERS[1].city = Oslo
    /\ USERS[1].manual_calorie_goal = PyNone

\* C9: a lookup that finds nothing leads to AwaitManualKcal and one that finds
\* the product leads to AwaitGrams with its kcal per 100 g captured; once a
\* kcal value k > 0 and grams g > 0 are accepted, logged calories increase by
\* exactly k * g / 100, one "food" event with that amount is appended, logged
\* water and burned calories are unchanged, and the flow ends with food_name
\* and food_kcal cleared.
C9_FoodLogging ==
    [][\A u \in UserIds :
          /\ \A args \in FoodArgs \ {<<>>}, food \in FoodResults :
                log_food_start(u, args, food) /\ ensure_profile(Resolved(u)) =>
                    IF food = PyNone THEN food_conv'[u] = "FOOD_KCAL_MANUAL"
                    ELSE /\ food_conv'[u] = "FOOD_GRAMS"
                         /\ user_data'[u].food_kcal = food.kcal_per_100g
          /\ \A text \in NameTexts, food \in FoodResults :
                log_food_name(u, text, food) =>
                    IF food = PyNone THEN food_conv'[u] = "FOOD_KCAL_MANUAL"
                    ELSE /\ food_conv'[u] = "FOOD_GRAMS"
                         /\ user_data'[u].food_kcal = food.kcal_per_100g
          /\ \A text \in GramsTexts :
                /\ log_food_grams(u, text)
                /\ Positive(user_data[u].food_kcal)
                /\ Positive(parse_float(text))
                =>  LET amount == (user_data[u].food_kcal.x * parse_float(text).x) \div 1000
                    IN  /\ IsNumber(USERS'[u].logged_calories)
                        /\ IsNumber(Resolved(u).logged_calories)
                        /\ Tenths(USERS'[u].logged_calories) =
                              Tenths(Resolved(u).logged_calories) + amount
                        /\ USERS'[u].history =
                              Append(Resolved(u).history,
                                     [ts |-> now, kind |-> "food", amount |-> PyFloat(amount)])
                        /\ USERS'[u].logged_water = Resolved(u).logged_water
                        /\ USERS'[u].burned_calories = Resolved(u).burned_calories
                        /\ food_conv'[u] = END
                        /\ user_data'[u] = NoData]_vars

\* C10: /log_water of a user whose profile passes the gate, with an amount
\* > 0, adds the amount to logged water, appends one "water" event with it,
\* leaves logged calories and burned calories alone and reports
\* remaining = max(water goal - logged water, 0) >= 0; without an amount, or
\* with one that is unparsable or <= 0, the ledger is unchanged.
C10_LogWater ==
    [][\A u \in UserIds, args \in WaterArgs :
          u \in DOMAIN USERS /\ ensure_profile(Resolved(u)) /\ log_water(u, args, NoWeather) =>
              IF args # <<>> /\ Positive(parse_int(args[1]))
              THEN LET amount == parse_int(args[1])
                   IN  /\ USERS'[u].logged_water =
                             PyInt(Resolved(u).logged_water.n + amount.n)
                       /\ USERS'[u].history =
                             Append(Resolved(u).history,
                                    [ts |-> now, kind |-> "water", amount |-> amount])
                       /\ USERS'[u].logged_calories = Resolved(u).logged_calories
                       /\ USERS'[u].burned_calories = Resolved(u).burned_calories
                       /\ reply'.kind = "water_logged"
                       /\ reply'.remaining.n >= 0
                       /\ LET goal == Trunc(USERS[u].weight.x * 30)
                                         + (USERS[u].activity.n \div 30) * 500
                              left == goal - USERS'[u].logged_water.n
                          IN  reply'.remaining = PyInt(IF left > 0 THEN left ELSE 0)
              ELSE SameLedger(USERS'[u], Resolved(u))]_vars

\* /log_workout with a type and minutes the handler takes
ValidWorkoutArgs ==
    {a \in WorkoutArgs : Len(a) >= 2 /\ Positive(parse_int(a[Len(a)]))}

\* C11: /log_workout of a user with weight, height, age and activity minutes
\* all set, with minutes m > 0, adds rate * m to burned calories (rate from
\* the table, 6 for a type not in it), appends one "workout" event with that
\* amount and suggests 200 * floor(m / 30) ml of water, nothing when m < 30.
C11_LogWorkout ==
    [][\A u \in UserIds, args \in ValidWorkoutArgs :
          u \in DOMAIN USERS /\ AllSet(Resolved(u)) /\ log_workout(u, args) =>
              LET m == parse_int(args[Len(args)]).n
                  rate == WORKOUT_KCAL_PER_MIN(Lower(Join(SubSeq(args, 1, Len(args) - 1))))
              IN  /\ reply'.kind = "workout_logged"
                  /\ USERS'[u].burned_calories = PyInt(Resolved(u).burned_calories.n + rate * m)
                  /\ USERS'[u].history =
                        Append(Resolved(u).history,
                               [ts |-> now, kind |-> "workout", amount |-> PyInt(rate * m)])
                  /\ reply'.extra_water =
                        IF m < 30 THEN PyNone ELSE PyInt(200 * (m \div 30))]_vars

\* one of the gated commands: /log_water, /log_food, /log_workout,
\* /check_progress, /plot, /recommend
GatedStep(u) ==
    \/ \E args \in WaterArgs : log_water(u, args, NoWeather)
    \/ \E args \in FoodArgs, food \in FoodResults : log_food_start(u, args, food)
    \/ \E args \in WorkoutArgs : log_workout(u, args)
    \/ check_progress(u, NoWeather)
    \/ plot_progress(u, NoWeather)
    \/ recommend(u, NoWeather)

\* C12: a gated command of a user whose profile is incomplete answers with the
\* directive to fill in the profile and changes nothing: the stored records
\* (last-reset date included) are as before, no flow is started and no
\* collaborator is called.
C12_GateAborts ==
    [][\A u \in UserIds :
          (u \notin DOMAIN USERS \/ ~AllSet(USERS[u])) /\ GatedStep(u) =>
              /\ reply' = NeedProfile
              /\ USERS' = USERS
              /\ UNCHANGED <<profile_conv, food_conv, user_data, last_get>>]_vars

\* C12, amended: a gated command of a user whose profile is incomplete answers
\* with the directive and does nothing but resolve the record: the stored
\* records are those get_user leaves (the record created if there was none,
\* rolled over if the date has changed), no flow is started and no
\* collaborator is called.
C12_GateResolvesOnly ==
    [][\A u \in UserIds :
          (u \notin DOMAIN USERS \/ ~AllSet(USERS[u])) /\ GatedStep(u) =>
              /\ reply' = NeedProfile
              /\ USERS' = get_user(USERS, u, today)
              /\ UNCHANGED <<profile_conv, food_conv, user_data, last_get>>]_vars

\* a command refused on day 1 to a user whose flow stopped before the activity
\* minutes on day 0
C12_Witness ==
    /\ 1 \in DOMAIN USERS
    /\ reply = NeedProfile
    /\ USERS[1].activity = PyNone
    /\ USERS[1].weight # PyNone
    /\ today = 1
    /\ USERS[1].last_date = 1

\* C13: /reset_day, in any state and on any date, leaves logged water, logged
\* calories and burned calories at 0 and the history empty, and leaves the
\* profile fields, the manual override, the temperature cache entry and the
\* conversations of the user, with their captured fields, as they were.
C13_ResetDay ==
    [][\A u \in UserIds :
          u \in DOMAIN USERS /\ reset_day(u) =>
              /\ USERS'[u].logged_water = PyInt(0)
              /\ USERS'[u].logged_calories = PyInt(0)
              /\ USERS'[u].burned_calories = PyInt(0)
              /\ USERS'[u].history = <<>>
              /\ SameProfile(USERS'[u], USERS[u])
              /\ SameCache(USERS'[u], USERS[u])
              /\ UNCHANGED <<profile_conv, food_conv, user_data>>]_vars

\* a reset in the middle of a food flow, with the kcal of the product captured
\* and the temperature of minute 0 stored
C13_Witness ==
    /\ 1 \in DOMAIN USERS
    /\ reply = [kind |-> "day_reset"]
    /\ food_conv[1] = "FOOD_GRAMS"
    /\ user_data[1].food_kcal = PyFloat(2500)
    /\ USERS[1].last_temp = PyFloat(320)
    /\ USERS[1].history = <<>>
    /\ USERS[1].burned_calories = PyInt(0)
    /\ today = 1

\* a /cancel update: taken by the fallback of profile_conv, else by that of
\* food_conv, else by no handler
CancelStep(u) ==
    \/ cancel_profile(u)
    \/ log_food_cancel(u)
    \/ log_all_updates(u, "/cancel")

\* C14: /cancel from a user with a conversation in any state of either flow
\* is accepted; after it the user has no conversation and no captured
\* food_name or food_kcal, and the stored records are as before.
C14_Cancel ==
    [][\A u \in UserIds :
          (profile_conv[u] # END \/ food_conv[u] # END) /\ CancelStep(u) =>
              /\ reply'.kind \in {"profile_cancelled", "food_cancelled"}
              /\ profile_conv'[u] = END
              /\ food_conv'[u] = END
              /\ user_data'[u] = NoData
              /\ USERS' = USERS]_vars

\* C15: a flow entry command (/set_profile, /log_food) from a user who has a
\* conversation in either flow ends that conversation and leaves the user
\* with the entered flow alone, at its start.
C15_EntryOverrides ==
    [][\A u \in UserIds :
          profile_conv[u] # END \/ food_conv[u] # END =>
              /\ set_profile(u) \/ log_all_updates(u, "/set_profile") =>
                    profile_conv'[u] = "WEIGHT" /\ food_conv'[u] = END
              /\ /\ u \in DOMAIN USERS
                 /\ ensure_profile(Resolved(u))
                 /\ \/ \E args \in FoodArgs, food \in FoodResults : log_food_start(u, args, food)
                    \/ log_all_updates(u, "/log_food")
                 => /\ profile_conv'[u] = END
                    /\ reply'.kind \in {"ask_name", "ask_kcal", "food_found"}
                    /\ food_conv'[u] \in {"FOOD_NAME", "FOOD_KCAL_MANUAL", "FOOD_GRAMS"}]_vars

\* a text taken by the state handler of the open conversation
TextStep(u) ==
    \/ \E text \in WeightTexts : set_weight(u, text)
    \/ \E text \in HeightTexts : set_height(u, text)
    \/ \E text \in AgeTexts : set_age(u, text)
    \/ \E text \in SexTexts : set_sex(u, text)
    \/ \E text \in ActivityTexts : set_activity(u, text)
    \/ \E text \in CityTexts : set_city(u, text)
    \/ \E text \in ChoiceTexts : set_manual_choice(u, text)
    \/ \E text \in CaloriesTexts : set_manual_calories(u, text)
    \/ \E text \in NameTexts, food \in FoodResults : log_food_name(u, text, food)
    \/ \E text \in KcalTexts : log_food_kcal_manual(u, text)
    \/ \E text \in GramsTexts : log_food_grams(u, text)

\* a flow entry command taken by an entry point
EntryStep(u) ==
    \/ set_profile(u)
    \/ \E args \in FoodArgs, food \in FoodResults : log_food_start(u, args, food)

\* a stateless command
StatelessStep(u) ==
    \/ \E args \in WaterArgs : log_water(u, args, NoWeather)
    \/ \E args \in WorkoutArgs : log_workout(u, args)
    \/ check_progress(u, NoWeather)
    \/ show_profile(u, NoWeather)
    \/ recommend(u, NoWeather)
    \/ plot_progress(u, NoWeather)
    \/ reset_day(u)
    \/ start(u)
    \/ help_command(u)

\* C16: the conversations of a user and the fields they captured change only
\* in a step that takes a text of the flow, a /cancel or a flow entry command:
\* never in a stateless command, and never when the date changes.
C16_NoSessionExpiry ==
    [][\A u \in UserIds :
          \/ profile_conv'[u] # profile_conv[u]
          \/ food_conv'[u] # food_conv[u]
          \/ user_data'[u] # user_data[u]
          => /\ TextStep(u) \/ CancelStep(u) \/ EntryStep(u)
             /\ ~StatelessStep(u)
             /\ ~NewDay]_vars

\* a workout logged on day 1 in the middle of a food flow opened on day 0: the
\* record has been rolled over, the flow and the captured kcal are still there
C16_Witness ==
    /\ 1 \in DOMAIN USERS
    /\ reply.kind = "workout_logged"
    /\ food_conv[1] = "FOOD_GRAMS"
    /\ user_data[1].food_kcal = PyFloat(2500)
    /\ today = 1
    /\ USERS[1].last_date = 1
    /\ Len(USERS[1].history) = 1

RECURSIVE SumOf(_, _)
\* the amounts of the events of one kind in a history, added up
SumOf(history, kind) ==
    IF history = <<>> THEN PyInt(0)
    ELSE LET h == history[Len(history)]
             rest == SumOf(SubSeq(history, 1, Len(history) - 1), kind)
         IN  IF h.kind = kind THEN PyAdd(rest, h.amount) ELSE rest

\* two Python numbers that compare equal (0 == 0.0), or are both NaN
SameAmount(a, b) ==
    IF a = NaN \/ b = NaN THEN a = b ELSE Tenths(a) = Tenths(b)

\* C17: the ledger holds nothing of an earlier date.  In every state each
\* accumulator is the sum of the events of its kind in the history; a step
\* that writes the ledger or the last-reset date leaves the last-reset date
\* at the current date; the history grows by one event at a time, appended to
\* the history of the current date (to the empty history when the record was
\* last reset on another date); and /check_progress reports the accumulators
\* of a record reset on the current date.
C17_NoCarryOver ==
    /\ [](\A u \in DOMAIN USERS :
             /\ SameAmount(USERS[u].logged_water, SumOf(USERS[u].history, "water"))
             /\ SameAmount(USERS[u].logged_calories, SumOf(USERS[u].history, "food"))
             /\ SameAmount(USERS[u].burned_calories, SumOf(USERS[u].history, "workout")))
    /\ [][\A u \in DOMAIN USERS :
             /\ ~SameLedger(USERS'[u], USERS[u]) \/ USERS'[u].last_date # USERS[u].last_date =>
                   /\ USERS'[u].last_date = today
                   /\ LET before == IF USERS[u].last_date = today THEN USERS[u].history
                                    ELSE <<>>
                      IN  \/ USERS'[u].history = <<>>
                          \/ USERS'[u].history = before
                          \/ /\ Len(USERS'[u].history) = Len(before) + 1
                             /\ SubSeq(USERS'[u].history, 1, Len(before)) = before
             /\ reply'.kind = "progress" /\ reply' # reply =>
                   /\ USERS'[u].last_date = today
                   /\ reply'.logged_water = USERS'[u].logged_water
                   /\ reply'.logged_calories = USERS'[u].logged_calories
                   /\ reply'.burned_calories = USERS'[u].burned_calories]_vars

\* food logged on day 1 as the only event of the day
C17_Witness ==
    /\ 1 \in DOMAIN USERS
    /\ today = 1
    /\ USERS[1].last_date = 1
    /\ reply.kind = "food_logged"
    /\ Len(USERS[1].history) = 1
    /\ USERS[1].history[1].kind = "food"
    /\ USERS[1].logged_calories = PyFloat(3750)
    /\ USERS[1].logged_water = PyInt(0)

\* the replies of /profile, /check_progress, /plot and /recommend that carry
\* the calorie goal the handler used
GoalReplies == {"profile", "progress", "plot", "plot_no_data", "recommend"}

\* C18: in /profile, /check_progress, /plot and /recommend the calorie goal
\* used is the manual override when one is set and the value of
\* calc_calorie_goal on the profile when none is.
C18_ManualOverride ==
    [][\A u \in UserIds :
          /\ u \in DOMAIN USERS
          /\ reply' # reply
          /\ reply'.kind \in GoalReplies
          /\ \/ show_profile(u, NoWeather) \/ check_progress(u, NoWeather)
             \/ plot_progress(u, NoWeather) \/ recommend(u, NoWeather)
          => reply'.calorie_goal =
                IF USERS[u].manual_calorie_goal # PyNone THEN USERS[u].manual_calorie_goal
                ELSE calc_calorie_goal(USERS[u].weight, USERS[u].height, USERS[u].age,
                                       USERS[u].sex, USERS[u].activity)]_vars

\* /plot with data, after a flow that ended with the override declined: the
\* goal drawn is the computed one, 10 * 70.5 + 6.25 * 175 - 5 * 30 + 5 + 100
C18_Witness ==
    /\ 1 \in DOMAIN USERS
    /\ profile_conv[1] = END
    /\ USERS[1].manual_calorie_goal = PyNone
    /\ USERS[1].sex = PyStr(<<"m", "a", "l", "e">>)
    /\ USERS[1].weight = PyFloat(705)
    /\ USERS[1].activity = PyInt(45)
    /\ reply.kind = "plot"
    /\ reply.calorie_goal = PyInt(1753)

\* the replies that tell the user of a failure or of the input needed: the
\* texts of the other replies (profile, progress, "logged: ... ml, remaining
\* ... ml") say nothing of a temperature that could not be fetched
FailureReplies ==
    {"need_profile", "water_usage", "bad_water", "workout_usage", "bad_minutes",
     "bad_weight", "bad_height", "bad_age", "bad_activity", "bad_calories",
     "bad_kcal", "bad_grams", "ask_kcal", "food_failed"}

\* C19: no failure is dropped silently: a /log_water that is refused for its
\* amount, and every command whose weather request failed, sends a reply that
\* tells the user of the failure or of the input needed.
C19_NoSilentFailure ==
    [][\A u \in UserIds :
          /\ u \in DOMAIN USERS /\ ensure_profile(USERS[u]) /\ ResolveStep(u) =>
                reply'.kind \in FailureReplies
          /\ GetStep(u) /\ Configured(u) /\ last_get'.failed /\ last_get' # last_get =>
                reply'.kind \in FailureReplies]_vars

\* C20: a text that advances the profile flow or the food flow never creates
\* a user record (records of unknown users come from stateless commands
\* only), and a text outside every flow changes no state and opens no flow.
C20_FlowsNeverCreate ==
    [][\A u \in UserIds :
          /\ TextStep(u) => DOMAIN USERS' = DOMAIN USERS
          /\ (\E upd \in UpdateKinds : log_all_updates(u, upd)) =>
                UNCHANGED <<USERS, profile_conv, food_conv, user_data>>]_vars

(***************************************************************************)
(* calc_water_goal applied to the fields of a record: weights above zero,  *)
(* activity minutes from zero, and a temperature or none.                  *)
(***************************************************************************)
GoalWeights == {PyFloat(5), PyFloat(700), PyFloat(705), PyFloat(1200)}
GoalActivities == {PyInt(0), PyInt(29), PyInt(30), PyInt(45), PyInt(60)}
GoalTemps == {PyNone, PyFloat(-50), PyFloat(250), PyFloat(255), PyFloat(300),
              PyFloat(305), PyFloat(320)}

InitGoal ==
    /\ \E weight \in GoalWeights, activity \in GoalActivities, temp \in GoalTemps :
          USERS = (1 :> [CompleteUser(weight, activity, Oslo) EXCEPT !.last_temp = temp])
    /\ profile_conv = [u \in UserIds |-> END]
    /\ food_conv = [u \in UserIds |-> END]
    /\ user_data = [u \in UserIds |-> NoData]
    /\ OWM_API_KEY = TRUE
    /\ today = 0
    /\ now = 0
    /\ reply = NoReply
    /\ last_get = PyNone
    /\ Idle

\* water_goal = calc_water_goal(user["weight"], user["activity"], temp), with
\* temp the temperature held in the record
ApplyWaterGoal(u) ==
    /\ reply = NoReply
    /\ reply' = [kind |-> "water_goal",
                 water_goal |-> calc_water_goal(USERS[u].weight, USERS[u].activity,
                                                USERS[u].last_temp)]
    /\ UNCHANGED <<USERS, profile_conv, food_conv, user_data, OWM_API_KEY, today, now, last_get>>

NextGoal == \E u \in UserIds : ApplyWaterGoal(u) /\ Handled

SpecGoal == InitGoal /\ [][NextGoal]_vars

\* the bucket of a temperature: 2 above 30 degrees, 1 above 25, else 0
TempBucket(temp_c) ==
    IF temp_c = PyNone THEN 0
    ELSE IF temp_c.x > 300 THEN 2
    ELSE IF temp_c.x > 250 THEN 1
    ELSE 0

\* weight * 30 + 500 * floor(activity / 30) + heat bonus, as a whole number
WaterGoalFormula(weight, activity, temp_c) ==
    (weight.x * 30) \div 10 + 500 * (activity.n \div 30)
        + (CASE TempBucket(temp_c) = 2 -> 1000
             [] TempBucket(temp_c) = 1 -> 500
             [] OTHER -> 0)

NumEq(a, b) == IsNumber(a) /\ IsNumber(b) /\ Tenths(a) = Tenths(b)

\* C23: in every state logged water is the sum of the "water" events of the
\* history, logged calories the sum of the "food" events and burned calories
\* the sum of the "workout" events; and the last running totals of a chart
\* are logged water and logged calories minus burned calories.
C23_LedgerConsistent ==
    /\ [](\A u \in DOMAIN USERS :
             /\ NumEq(USERS[u].logged_water, SumOf(USERS[u].history, "water"))
             /\ NumEq(USERS[u].logged_calories, SumOf(USERS[u].history, "food"))
             /\ NumEq(USERS[u].burned_calories, SumOf(USERS[u].history, "workout")))
    /\ [][\A u \in UserIds :
             plot_progress(u, NoWeather) /\ reply'.kind = "plot" =>
                 /\ NumEq(reply'.water, USERS'[u].logged_water)
                 /\ IsNumber(USERS'[u].logged_calories)
                 /\ IsNumber(reply'.calories)
                 /\ Tenths(reply'.calories) =
                       Tenths(USERS'[u].logged_calories) - Tenths(USERS'[u].burned_calories)]_vars

(***************************************************************************)
(* A user with a complete profile and a weather key who changes city       *)
(* through the profile flow: the weather service answers a request by the  *)
(* city asked for, or fails.                                               *)
(***************************************************************************)
Cairo == PyStr(<<"C", "a", "i", "r", "o">>)

MovingCityTexts == {<<"O", "s", "l", "o">>, <<"C", "a", "i", "r", "o", " ">>}

\* the answer of the weather service to params q = city
CityWeather(city) ==
    IF city = Oslo THEN [ok |-> TRUE, temp |-> PyFloat(200)]
    ELSE IF city = Cairo THEN [ok |-> TRUE, temp |-> PyFloat(320)]
    ELSE NoWeather

\* the responses a request for the city of user u can come to
CityResponses(u) == {NoWeather, CityWeather(USERS[u].city)}

InitCity ==
    /\ USERS = (1 :> CompleteUser(PyFloat(705), PyInt(45), Oslo))
    /\ profile_conv = [u \in UserIds |-> END]
    /\ food_conv = [u \in UserIds |-> END]
    /\ user_data = [u \in UserIds |-> NoData]
    /\ OWM_API_KEY = TRUE
    /\ today = 0
    /\ now = 0
    /\ reply = NoReply
    /\ last_get = NoGet
    /\ Idle

NextCity ==
    \/ \E u \in UserIds :
        \/ set_profile(u) /\ Handled
        \/ set_weight(u, <<"7", "0", ",", "5">>) /\ Handled
        \/ set_height(u, <<"1", "7", "5", ".", "9">>) /\ Handled
        \/ set_age(u, <<"3", "0">>) /\ Handled
        \/ set_sex(u, <<"-">>) /\ Handled
        \/ set_activity(u, <<"4", "5">>) /\ Handled
        \/ \E text \in MovingCityTexts : set_city(u, text) /\ Handled
        \/ set_manual_choice(u, <<"n", "o">>) /\ Handled
        \/ \E resp \in CityResponses(u) :
              \/ show_profile(u, resp) /\ Handled
              \/ check_progress(u, resp) /\ Handled
    \/ Advance /\ Handled

SpecCity == InitCity /\ [][NextCity]_vars

\* a command of user u that asks for the temperature
CityGetStep(u) ==
    \E resp \in CityResponses(u) :
        \/ show_profile(u, resp)
        \/ check_progress(u, resp)

\* C24: a temperature that get_temperature returns for a user is the
\* temperature of the city now stored in the user's profile, also when the
\* city was changed less than 30 minutes after the last successful fetch.
C24_TempOfCurrentCity ==
    [][\A u \in UserIds :
          CityGetStep(u) /\ last_get'.t = "get" /\ last_get'.ret # PyNone =>
              last_get'.ret = CityWeather(USERS'[u].city).temp]_vars

(***************************************************************************)
(* The application's update loop.  Telegram delivers updates into          *)
(* update_queue at any moment; the application built in main takes them    *)
(* one at a time and awaits the handler of each before it takes the next   *)
(* (no concurrent_updates, handlers blocking).  A handler coroutine runs   *)
(* without interruption up to its await of reply_text; the record is       *)
(* resolved and written before that await in every handler.                *)
(***************************************************************************)
QueuedUpdates ==
    {[cmd |-> "/log_water", args |-> <<<<"3", "0", "0", "0">>>>],
     [cmd |-> "/log_food", args |-> <<<<"p", "i", "e">>>>],
     [cmd |-> "text", args |-> <<<<"1", "5", "0">>>>],
     [cmd |-> "/reset_day", args |-> <<>>]}

\* Telegram delivers an update of user u while anything may be in progress
Deliver(u, upd) ==
    /\ Len(update_queue) < MaxQueue
    /\ update_queue' = Append(update_queue, [user |-> u, cmd |-> upd.cmd, args |-> upd.args])
    /\ UNCHANGED <<USERS, profile_conv, food_conv, user_data, OWM_API_KEY, today, now, reply,
                   last_get, running>>

\* the handler that the application's handlers pick for an update, run up to
\* its await of reply_text
Dispatch(upd) ==
    LET u == upd.user
    IN  CASE upd.cmd = "/log_water" -> log_water(u, upd.args, NoWeather)
          [] upd.cmd = "/reset_day" -> reset_day(u)
          [] upd.cmd = "/log_food" ->
                IF food_conv[u] = END
                THEN log_food_start(u, upd.args, FoodFound)
                ELSE log_all_updates(u, "/log_food")
          [] upd.cmd = "text" ->
                IF food_conv[u] = "FOOD_GRAMS"
                THEN log_food_grams(u, upd.args[1])
                ELSE log_all_updates(u, "text")

\* an update loop that starts the handler of the next update while handlers
\* of earlier updates are still awaiting
process_update_concurrently ==
    /\ update_queue # <<>>
    /\ Dispatch(Head(update_queue))
    /\ update_queue' = Tail(update_queue)
    /\ running' = Append(running, Head(update_queue))

\* the update loop takes the next update once no handler is in progress
process_update ==
    /\ update_queue # <<>>
    /\ running = <<>>
    /\ Dispatch(Head(update_queue))
    /\ update_queue' = Tail(update_queue)
    /\ running' = Append(running, Head(update_queue))

\* the awaited reply_text ends and the handler coroutine with it
HandlerReturns ==
    /\ running # <<>>
    /\ running' = Tail(running)
    /\ UNCHANGED <<USERS, profile_conv, food_conv, user_data, OWM_API_KEY, today, now, reply,
                   last_get, update_queue>>

InitApp ==
    /\ USERS = (1 :> CompleteUser(PyFloat(705), PyInt(45), Oslo))
    /\ profile_conv = [u \in UserIds |-> END]
    /\ food_conv = [u \in UserIds |-> END]
    /\ user_data = [u \in UserIds |-> NoData]
    /\ OWM_API_KEY = FALSE
    /\ today = 0
    /\ now = 0
    /\ reply = NoReply
    /\ last_get = NoGet
    /\ Idle

NextApp ==
    \/ \E u \in UserIds, upd \in QueuedUpdates : Deliver(u, upd)
    \/ process_update /\ HistoryWithin(MaxHist)'
    \/ HandlerReturns
    \/ NewDay /\ UNCHANGED <<update_queue, running>>

SpecApp == InitApp /\ [][NextApp]_vars

\* the handlers of user u in progress
RunningOf(u) == {i \in 1..Len(running) : running[i].user = u}

\* the ledger of record n is what one command makes of the resolved record r:
\* r's ledger itself, the ledger reset, or r's history with one event appended
\* and the accumulator of the event's kind increased by the event's amount
OneWrite(r, n) ==
    \/ SameLedger(n, r)
    \/ /\ n.history = <<>>
       /\ n.logged_water = PyInt(0)
       /\ n.logged_calories = PyInt(0)
       /\ n.burned_calories = PyInt(0)
    \/ /\ Len(n.history) = Len(r.history) + 1
       /\ SubSeq(n.history, 1, Len(r.history)) = r.history
       /\ LET e == n.history[Len(n.history)]
          IN  /\ n.logged_water =
                    IF e.kind = "water" THEN PyAdd(r.logged_water, e.amount) ELSE r.logged_water
              /\ n.logged_calories =
                    IF e.kind = "food" THEN PyAdd(r.logged_calories, e.amount)
                    ELSE r.logged_calories
              /\ n.burned_calories =
                    IF e.kind = "workout" THEN PyAdd(r.burned_calories, e.amount)
                    ELSE r.burned_calories

\* C21: whatever updates of a user are delivered while a handler is in
\* progress, at most one handler of the user is in progress at a time, and a
\* step that changes the user's ledger is the start of the only handler in
\* progress, which resolves the record (rollover check), adds to the
\* accumulator and appends to the history in that one step: no increment is
\* lost and nothing is appended to a ledger reset since it was resolved.
C21_MutualExclusion ==
    /\ [](\A u \in UserIds : Cardinality(RunningOf(u)) <= 1)
    /\ [][\A u \in DOMAIN USERS :
             ~SameLedger(USERS'[u], USERS[u]) \/ USERS'[u].last_date # USERS[u].last_date =>
                 /\ RunningOf(u) = {}
                 /\ Cardinality({i \in 1..Len(running') : running'[i].user = u}) = 1
                 /\ update_queue # <<>>
                 /\ Head(update_queue).user = u
                 /\ USERS'[u].last_date = today
                 /\ OneWrite(Resolved(u), USERS'[u])]_vars

\* two updates delivered while a handler was in progress, both since applied
C21_Witness ==
    /\ running # <<>>
    /\ running[1].cmd = "text"
    /\ update_queue # <<>>
    /\ USERS[1].logged_water = PyInt(3000)
    /\ USERS[1].logged_calories = PyFloat(3750)
    /\ Len(USERS[1].history) = 2

=============================================================================
